---- MODULE Spec2Model ----
(***************************************************************************)
(* fuhl: fuzzy picker over the browser history (src/src/main.rs).          *)
(* The model follows main() step by step: loading the history database,    *)
(* building the display strings, acquiring the terminal, the render/input  *)
(* loop with its key handlers, and the two places that restore the         *)
(* terminal.  Strings are sequences of one-character strings.              *)
(***************************************************************************)
EXTENDS Integers, Sequences, FiniteSets, TLC

\* ------------------------------------------------------------------ bounds
\* Longest query the user types in the model.
MaxQuery == 2
\* Number of rows of the large history database (more than the 50 shown).
BigN == 52

\* ------------------------------------------------------- program constants
\* candidates.iter().take(50) / min(matches.len(), 50)
TopN == 50

\* ------------------------------------------------------------------ strings
WhiteSpace == {" ", "\n"}

Sep == <<" ", "-", " ">>

\* char::to_lowercase on the characters of the model's alphabet
Lower(c) ==
    IF c = "A" THEN "a" ELSE IF c = "B" THEN "b" ELSE c

LowerStr(s) == [i \in 1..Len(s) |-> Lower(s[i])]

Min(a, b) == IF a < b THEN a ELSE b

RECURSIVE TrimStart(_)
TrimStart(s) ==
    IF s # <<>> /\ Head(s) \in WhiteSpace THEN TrimStart(Tail(s)) ELSE s

RECURSIVE TrimEnd(_)
TrimEnd(s) ==
    IF s # <<>> /\ s[Len(s)] \in WhiteSpace
    THEN TrimEnd(SubSeq(s, 1, Len(s) - 1))
    ELSE s

\* str::trim
Trim(s) == TrimEnd(TrimStart(s))

\* 0-based byte positions at which pat occurs in s
Occurrences(s, pat) ==
    {p \in 0..(Len(s) - Len(pat)) : SubSeq(s, p + 1, p + Len(pat)) = pat}

Maximum(S) == CHOOSE x \in S : \A y \in S : y <= x
Minimum(S) == CHOOSE x \in S : \A y \in S : x <= y

\* str::rfind: the position of the last occurrence, -1 for None
RFind(s, pat) ==
    IF Occurrences(s, pat) = {} THEN -1 ELSE Maximum(Occurrences(s, pat))

\* str::find: the position of the first occurrence, -1 for None
Find(s, pat) ==
    IF Occurrences(s, pat) = {} THEN -1 ELSE Minimum(Occurrences(s, pat))

\* ------------------------------------------------- the history databases
\* A row of the SELECT either converts to a Url (ok) or fails to convert
\* and is reported and skipped.  Only title and url are ever read again.
Row(t, u) == [ok |-> TRUE, title |-> t, url |-> u]
BadRow == [ok |-> FALSE, title |-> <<>>, url |-> <<>>]

Digit(n) ==
    CASE n = 0 -> "0" [] n = 1 -> "1" [] n = 2 -> "2" [] n = 3 -> "3"
      [] n = 4 -> "4" [] n = 5 -> "5" [] n = 6 -> "6" [] n = 7 -> "7"
      [] n = 8 -> "8" [] n = 9 -> "9"

\* three readable rows around an unreadable one
SmallRows ==
    << Row(<<"A", "b">>, <<"b", "a">>),
       BadRow,
       Row(<<" ">>, <<"b", "!">>),
       Row(<<"a", " ", "-", " ", "b">>, <<"c">>) >>

\* BigN untitled rows a00, a01, ...
BigRows ==
    [i \in 1..BigN |->
        Row(<<>>, <<"a", Digit(((i - 1) \div 10) % 10), Digit((i - 1) % 10)>>)]

\* a title with an embedded newline, and a url that holds " - "
OddRows ==
    << Row(<<"a", "\n", "b">>, <<"b">>),
       Row(<<"a">>, <<"b", " ", "-", " ", "c">>) >>

Databases ==
    { [exists |-> FALSE, rows |-> <<>>],
      [exists |-> TRUE, rows |-> <<>>],
      [exists |-> TRUE, rows |-> <<BadRow>>],
      [exists |-> TRUE, rows |-> SmallRows],
      [exists |-> TRUE, rows |-> OddRows],
      [exists |-> TRUE, rows |-> BigRows] }

\* the characters a KeyCode::Char event carries in the model
TypedChars == {"a", "b", " ", "!", "^", "$", "'"}

\* ------------------------------------------------------ candidate store
\* for url in url_iter: Ok(u) => urls.push(u), Err(e) => eprintln
CollectUrls(rows) ==
    LET good == SelectSeq(rows, LAMBDA r : r.ok)
    IN  [i \in 1..Len(good) |-> [title |-> good[i].title, url |-> good[i].url]]

\* "title - url" or just "url"
Display(u) ==
    IF Trim(u.title) = <<>> THEN u.url ELSE Trim(u.title) \o Sep \o u.url

BuildDisplays(us) == [i \in 1..Len(us) |-> Display(us[i])]

\* ------------------------------------------------------------- the matcher
\* pattern_atoms: the query is split at every space; each piece is an atom
RECURSIVE SplitAtoms(_, _)
SplitAtoms(s, cur) ==
    IF s = <<>> THEN <<cur>>
    ELSE IF Head(s) = " " THEN <<cur>> \o SplitAtoms(Tail(s), <<>>)
    ELSE SplitAtoms(Tail(s), Append(cur, Head(s)))

\* Atom::parse with CaseMatching::Ignore: a leading '!' negates, a leading
\* '^' or single quote and a trailing '$' select the kind of match, and what
\* is left is the needle, lowercased.
ParseAtom(raw) ==
    LET invert == raw # <<>> /\ raw[1] = "!"
        a1     == IF invert THEN Tail(raw) ELSE raw
        kind1  == IF a1 # <<>> /\ a1[1] = "^" THEN "Prefix"
                  ELSE IF a1 # <<>> /\ a1[1] = "'" THEN "Substring"
                  ELSE "Fuzzy"
        a2     == IF kind1 = "Fuzzy" THEN a1 ELSE Tail(a1)
        dollar == a2 # <<>> /\ a2[Len(a2)] = "$"
        kind2  == IF ~dollar THEN kind1
                  ELSE IF kind1 = "Fuzzy" THEN "Postfix" ELSE "Exact"
        a3     == IF dollar THEN SubSeq(a2, 1, Len(a2) - 1) ELSE a2
        kind   == IF invert /\ kind2 = "Fuzzy" THEN "Substring" ELSE kind2
    IN  [negative |-> invert, kind |-> kind, needle |-> LowerStr(a3)]

RECURSIVE KeepNonEmpty(_)
KeepNonEmpty(atoms) ==
    IF atoms = <<>> THEN <<>>
    ELSE IF Head(atoms).needle = <<>> THEN KeepNonEmpty(Tail(atoms))
    ELSE <<Head(atoms)>> \o KeepNonEmpty(Tail(atoms))

\* Pattern::parse(&query, CaseMatching::Ignore, Normalization::Smart):
\* the atoms of the query whose needle is not empty
PatternParse(q) ==
    LET raw == SplitAtoms(q, <<>>)
    IN  KeepNonEmpty([i \in 1..Len(raw) |-> ParseAtom(raw[i])])

\* the leftmost positions at which needle occurs in h as an ordered
\* subsequence, from position `from` on; a 0 marks a character not found
RECURSIVE FuzzyPositions(_, _, _)
FuzzyPositions(h, needle, from) ==
    IF needle = <<>> THEN <<>>
    ELSE LET c == {i \in from..Len(h) : h[i] = needle[1]}
         IN  IF c = {} THEN <<0>>
             ELSE <<Minimum(c)>> \o FuzzyPositions(h, Tail(needle), Minimum(c) + 1)

\* the positions of h (lowercased by the caller) an atom matches, <<0>> for
\* no match
MatchPositions(kind, needle, h) ==
    LET n == Len(needle)
        run(first) == [k \in 1..n |-> first + k - 1]
        lead == Len(h) - Len(TrimStart(h))
        core == Trim(h)
    IN  CASE kind = "Fuzzy" -> FuzzyPositions(h, needle, 1)
          [] kind = "Substring" ->
                IF Find(h, needle) = -1 THEN <<0>> ELSE run(Find(h, needle) + 1)
          [] kind = "Prefix" ->
                IF Len(TrimStart(h)) >= n /\ SubSeq(TrimStart(h), 1, n) = needle
                THEN run(lead + 1) ELSE <<0>>
          [] kind = "Postfix" ->
                IF Len(TrimEnd(h)) >= n
                   /\ SubSeq(TrimEnd(h), Len(TrimEnd(h)) - n + 1, Len(TrimEnd(h))) = needle
                THEN run(Len(TrimEnd(h)) - n + 1) ELSE <<0>>
          [] kind = "Exact" ->
                IF core = needle THEN run(lead + 1) ELSE <<0>>

\* The matcher's score of matched positions: 16 for every matched character,
\* a bonus for a match at the start of the string and for every character
\* that directly follows the previous match, a penalty for every gap.
RECURSIVE ScoreFrom(_, _)
ScoreFrom(ps, k) ==
    IF k > Len(ps) THEN 0
    ELSE (IF k = 1 THEN (IF ps[1] = 1 THEN 16 ELSE 0)
          ELSE IF ps[k] = ps[k - 1] + 1 THEN 4
          ELSE 0 - (3 + (ps[k] - ps[k - 1] - 2)))
         + 16 + ScoreFrom(ps, k + 1)

NoMatch == -1

\* mutant: the haystack compared with its case respected
AtomScore_CaseSensitive(atom, hay) ==
    LET ps    == MatchPositions(atom.kind, atom.needle, hay)
        found == \A k \in 1..Len(ps) : ps[k] # 0
    IN  IF atom.negative THEN (IF found THEN NoMatch ELSE 0)
        ELSE IF found THEN ScoreFrom(ps, 1) ELSE NoMatch

\* Atom::score: None (NoMatch) or the score; a negative atom matches with
\* score 0 exactly when its needle does not
AtomScore(atom, hay) ==
    LET ps    == MatchPositions(atom.kind, atom.needle, LowerStr(hay))
        found == \A k \in 1..Len(ps) : ps[k] # 0
    IN  IF atom.negative THEN (IF found THEN NoMatch ELSE 0)
        ELSE IF found THEN ScoreFrom(ps, 1) ELSE NoMatch

\* Pattern::score: every atom must match; the scores add up
RECURSIVE PatternScore(_, _)
PatternScore(atoms, hay) ==
    IF atoms = <<>> THEN 0
    ELSE LET a == AtomScore(Head(atoms), hay)
             r == PatternScore(Tail(atoms), hay)
         IN  IF a = NoMatch \/ r = NoMatch THEN NoMatch ELSE a + r

\* mutant: sorted by ascending score
RECURSIVE SortByScore_Ascending(_, _, _)
SortByScore_Ascending(score, n, left) ==
    IF left = {} THEN <<>>
    ELSE LET worst == Minimum(left)
         IN  SelectSeq([i \in 1..n |-> i], LAMBDA i : score[i] = worst)
                 \o SortByScore_Ascending(score, n, left \ {worst})

\* items.sort_by_key(|(_, score)| Reverse(*score)): a stable sort, so equal
\* scores keep their original order
RECURSIVE SortByScore(_, _, _)
SortByScore(score, n, left) ==
    IF left = {} THEN <<>>
    ELSE LET best == Maximum(left)
         IN  SelectSeq([i \in 1..n |-> i], LAMBDA i : score[i] = best)
                 \o SortByScore(score, n, left \ {best})

\* Pattern::match_list: the indices of the matching candidates, best first;
\* a pattern without atoms matches every candidate, in the original order
MatchList(atoms, cands) ==
    IF atoms = <<>> THEN [i \in 1..Len(cands) |-> i]
    ELSE LET score == [i \in 1..Len(cands) |-> PatternScore(atoms, cands[i])]
         IN  SortByScore(score, Len(cands),
                 {score[i] : i \in 1..Len(cands)} \ {NoMatch})

\* mutant: take(50) forgotten
TakeTop_All(cands) == cands

\* the empty-query branch: candidates.iter().take(50)
TakeTop(cands) == SubSeq(cands, 1, Min(Len(cands), TopN))

\* query.trim().is_empty()
IsBlank(q) == Trim(q) = <<>>

\* items_for_display of one frame (lines 113-126)
ItemsForDisplay(q, cands) ==
    IF IsBlank(q) THEN TakeTop(cands)
    ELSE LET matches == MatchList(PatternParse(q), cands)
         IN  [k \in 1..Min(Len(matches), TopN) |-> cands[matches[k]]]

\* "Ensure selected is in bounds"
ClampSelected(sel, n) ==
    IF n = 0 THEN 0 ELSE IF sel >= n THEN n - 1 ELSE sel

\* mutant: find instead of rfind
UrlOf_First(choice) ==
    IF Find(choice, Sep) # -1
    THEN SubSeq(choice, Find(choice, Sep) + 3 + 1, Len(choice))
    ELSE choice

\* the url handed to the browser: what follows the last " - " of the choice
UrlOf(choice) ==
    IF RFind(choice, Sep) # -1
    THEN SubSeq(choice, RFind(choice, Sep) + 3 + 1, Len(choice))
    ELSE choice

\* -------------------------------------------------------------------- state
VARIABLES
    db,                 \* the history database found at FUHL_DB
    urls,               \* Vec<Url>: the rows read
    displays,           \* Vec<String>: the candidate store
    pc,                 \* the position of main()
    query,              \* String
    selected,           \* usize
    items_for_display,  \* Vec<String> of the current iteration
    frame,              \* what the last terminal.draw rendered
    key,                \* the last outcome of event::poll / event::read
    prev,               \* query and selected when that event was handled
    term,               \* the terminal: raw mode, alternate screen, mouse, cursor
    oplog,              \* the terminal and browser calls made, in order
    url,                \* the url computed by the Enter arm
    opened,             \* the arguments webbrowser::open was called with
    stdout,             \* lines printed with println!
    stderr,             \* lines printed with eprintln!
    status,             \* "running", or how the process ended
    cause               \* what ended it

vars == <<db, urls, displays, pc, query, selected, items_for_display, frame,
          key, prev, term, oplog, url, opened, stdout, stderr, status, cause>>

NoFrame == [drawn |-> FALSE]
NoKey == [code |-> "None"]

Init ==
    /\ db \in Databases
    /\ urls = <<>>
    /\ displays = <<>>
    /\ pc = "start"
    /\ query = <<>>
    /\ selected = 0
    /\ items_for_display = <<>>
    /\ frame = NoFrame
    /\ key = NoKey
    /\ prev = [query |-> <<>>, selected |-> 0]
    /\ term = [raw |-> FALSE, alt |-> FALSE, mouse |-> FALSE, cursor |-> TRUE]
    /\ oplog = <<>>
    /\ url = <<>>
    /\ opened = <<>>
    /\ stdout = <<>>
    /\ stderr = <<>>
    /\ status = "running"
    /\ cause = "none"

\* the process ends: Ok(()) is "ok", an Err returned by `?` is "err",
\* process::exit(1) is "exit1", a failed expect is "panic"
End(how, why) ==
    /\ pc' = "done"
    /\ status' = how
    /\ cause' = why

Session == <<query, selected, items_for_display, frame, key, prev>>
Store == <<db, urls, displays>>
Sinks == <<url, opened, stdout>>

\* ------------------------------------------------------------------ startup
\* lines 41-46: the database file exists, or the program reports and exits
CheckDatabase ==
    /\ pc = "start"
    /\ IF db.exists
       THEN /\ pc' = "load"
            /\ UNCHANGED <<status, cause, stderr>>
       ELSE /\ stderr' = Append(stderr, "History DB not found at path")
            /\ End("exit1", "db_missing")
    /\ UNCHANGED <<Store, Session, Sinks, term, oplog>>

\* lines 42-65: copying, opening or querying the database fails (expect)
LoadPanics ==
    /\ pc = "load"
    /\ stderr' = Append(stderr, "Failed to read the database")
    /\ End("panic", "db_unreadable")
    /\ UNCHANGED <<Store, Session, Sinks, term, oplog>>

RowErrors(rows) ==
    LET bad == {i \in 1..Len(rows) : ~rows[i].ok}
    IN  IF bad = {} THEN <<>> ELSE <<"Error reading row">>

\* mutant: the urls.is_empty() check forgotten
LoadUrls_NoEmptyCheck ==
    /\ pc = "load"
    /\ urls' = CollectUrls(db.rows)
    /\ stderr' = stderr \o RowErrors(db.rows)
    /\ displays' = BuildDisplays(urls')
    /\ pc' = "raw"
    /\ UNCHANGED <<status, cause>>
    /\ UNCHANGED <<db, Session, Sinks, term, oplog>>

\* lines 67-90: the rows are collected; no row at all ends the program,
\* otherwise the display strings are built
LoadUrls ==
    /\ pc = "load"
    /\ urls' = CollectUrls(db.rows)
    /\ IF urls' = <<>>
       THEN /\ stderr' = stderr \o RowErrors(db.rows) \o <<"No URLs found">>
            /\ displays' = displays
            /\ End("ok", "no_urls")
       ELSE /\ stderr' = stderr \o RowErrors(db.rows)
            /\ displays' = BuildDisplays(urls')
            /\ pc' = "raw"
            /\ UNCHANGED <<status, cause>>
    /\ UNCHANGED <<db, Session, Sinks, term, oplog>>

\* line 96: enable_raw_mode()?
EnableRawMode ==
    /\ pc = "raw"
    /\ oplog' = Append(oplog, "enable_raw_mode")
    /\ \E ok \in BOOLEAN :
          IF ok
          THEN /\ term' = [term EXCEPT !.raw = TRUE]
               /\ pc' = "alt"
               /\ UNCHANGED <<status, cause>>
          ELSE /\ term' = term
               /\ End("err", "setup_error")
    /\ UNCHANGED <<Store, Session, Sinks, stderr>>

\* line 98: execute!(stdout, EnterAlternateScreen, EnableMouseCapture)?
\* A failed write may have switched the screen already.
EnterAlternateScreen ==
    /\ pc = "alt"
    /\ oplog' = Append(oplog, "EnterAlternateScreen")
    /\ \E ok \in BOOLEAN :
          IF ok
          THEN /\ term' = [term EXCEPT !.alt = TRUE, !.mouse = TRUE]
               /\ pc' = "terminal"
               /\ UNCHANGED <<status, cause>>
          ELSE /\ \E a \in BOOLEAN : term' = [term EXCEPT !.alt = a]
               /\ End("err", "setup_error")
    /\ UNCHANGED <<Store, Session, Sinks, stderr>>

\* lines 99-106: Terminal::new(backend)?, terminal.clear()?, the UI state
NewTerminal ==
    /\ pc = "terminal"
    /\ \E ok \in BOOLEAN :
          IF ok
          THEN /\ pc' = "frame"
               /\ query' = <<>>
               /\ selected' = 0
               /\ UNCHANGED <<status, cause>>
          ELSE /\ UNCHANGED <<query, selected>>
               /\ End("err", "setup_error")
    /\ UNCHANGED <<Store, items_for_display, frame, key, prev, Sinks, term,
                   oplog, stderr>>

\* ----------------------------------------------------------------- the loop
\* lines 111-159: the matches of the query, the clamp of selected, and one
\* terminal.draw(..)?, which hides the cursor
Draw ==
    /\ pc = "frame"
    /\ items_for_display' = ItemsForDisplay(query, displays)
    /\ selected' = ClampSelected(selected, Len(items_for_display'))
    /\ \E ok \in BOOLEAN :
          IF ok
          THEN /\ frame' = [drawn |-> TRUE, query |-> query,
                            items |-> items_for_display',
                            selected |-> selected']
               /\ term' = [term EXCEPT !.cursor = FALSE]
               /\ pc' = "poll"
               /\ UNCHANGED <<status, cause>>
          ELSE /\ UNCHANGED <<frame, term>>
               /\ End("err", "draw_error")
    /\ UNCHANGED <<Store, query, key, prev, Sinks, oplog, stderr>>

Handled(code) ==
    /\ key' = [code |-> code]
    /\ prev' = [query |-> query, selected |-> selected]

NextFrame ==
    /\ pc' = "frame"
    /\ UNCHANGED <<Store, items_for_display, frame, Sinks, term, oplog,
                   stderr, status, cause>>

\* mutant: the poll has no timeout and blocks until an event arrives
PollTimeout_Never ==
    /\ pc = "poll"
    /\ FALSE
    /\ UNCHANGED vars

\* mutant: a timeout resets the selection
PollTimeout_Resets ==
    /\ pc = "poll"
    /\ Handled("Timeout")
    /\ query' = query
    /\ selected' = 0
    /\ NextFrame

\* line 162: event::poll(Duration::from_millis(200))? returns false
PollTimeout ==
    /\ pc = "poll"
    /\ Handled("Timeout")
    /\ UNCHANGED <<query, selected>>
    /\ NextFrame

\* lines 162-163: event::poll(..)? or event::read()? returns an error
PollFails ==
    /\ pc = "poll"
    /\ End("err", "poll_error")
    /\ UNCHANGED <<Store, Session, Sinks, term, oplog, stderr>>

\* line 163: the event read is no key event (mouse, resize)
NonKeyEvent ==
    /\ pc = "poll"
    /\ Handled("NonKey")
    /\ UNCHANGED <<query, selected>>
    /\ NextFrame

\* mutant: the selection kept when a character is typed
KeyChar_KeepsSelection(c) ==
    /\ pc = "poll"
    /\ Len(query) < MaxQuery
    /\ key' = [code |-> "Char", ch |-> c]
    /\ prev' = [query |-> query, selected |-> selected]
    /\ query' = Append(query, c)
    /\ selected' = selected
    /\ NextFrame

\* lines 165-168: KeyCode::Char(c)
KeyChar(c) ==
    /\ pc = "poll"
    /\ Len(query) < MaxQuery
    /\ key' = [code |-> "Char", ch |-> c]
    /\ prev' = [query |-> query, selected |-> selected]
    /\ query' = Append(query, c)
    /\ selected' = 0
    /\ NextFrame

\* mutant: the first character removed instead of the last
Pop_First(q) == IF q = <<>> THEN q ELSE Tail(q)

\* String::pop
Pop(q) == IF q = <<>> THEN q ELSE SubSeq(q, 1, Len(q) - 1)

\* lines 169-172: KeyCode::Backspace
KeyBackspace ==
    /\ pc = "poll"
    /\ Handled("Backspace")
    /\ query' = Pop(query)
    /\ selected' = 0
    /\ NextFrame

\* mutant: the guard `selected > 0` forgotten
MoveUp_NoGuard(sel) == sel - 1

\* lines 174-176
MoveUp(sel) == IF sel > 0 THEN sel - 1 ELSE sel

\* lines 173-177: KeyCode::Up
KeyUp ==
    /\ pc = "poll"
    /\ Handled("Up")
    /\ selected' = MoveUp(selected)
    /\ query' = query
    /\ NextFrame

\* mutant: Down wraps around to the first entry
MoveDown_Wraps(sel, n) == IF n = 0 THEN sel ELSE (sel + 1) % n

\* lines 179-181
MoveDown(sel, n) == IF sel + 1 < n THEN sel + 1 ELSE sel

\* lines 178-182: KeyCode::Down
KeyDown ==
    /\ pc = "poll"
    /\ Handled("Down")
    /\ selected' = MoveDown(selected, Len(items_for_display))
    /\ query' = query
    /\ NextFrame

\* line 208: any other key
KeyOther ==
    /\ pc = "poll"
    /\ Handled("Other")
    /\ UNCHANGED <<query, selected>>
    /\ NextFrame

\* lines 183-186: KeyCode::Esc breaks out of the loop
KeyEsc ==
    /\ pc = "poll"
    /\ Handled("Esc")
    /\ pc' = "esc_raw"
    /\ UNCHANGED <<Store, query, selected, items_for_display, frame, Sinks,
                   term, oplog, stderr, status, cause>>

\* items_for_display.get(selected) is Some
HasChoice(items, sel) == sel < Len(items)

\* items_for_display.get(selected), for a 0-based selected
Choice(items, sel) == items[sel + 1]


\* mutant: the browser opened before the terminal is restored
KeyEnter_OpensFirst ==
    /\ pc = "poll"
    /\ Handled("Enter")
    /\ IF HasChoice(items_for_display, selected)
       THEN /\ url' = UrlOf(Choice(items_for_display, selected))
            /\ pc' = "open"
            /\ UNCHANGED <<status, cause>>
       ELSE /\ url' = url
            /\ End("ok", "accept_empty")
    /\ UNCHANGED <<Store, query, selected, items_for_display, frame, opened,
                   stdout, term, oplog, stderr>>

\* mutant: the choice taken from the candidate store, not from the matches
KeyEnter_FromCandidates ==
    /\ pc = "poll"
    /\ Handled("Enter")
    /\ IF HasChoice(items_for_display, selected)
       THEN /\ url' = UrlOf(Choice(displays, selected))
            /\ pc' = "enter_raw"
            /\ UNCHANGED <<status, cause>>
       ELSE /\ url' = url
            /\ End("ok", "accept_empty")
    /\ UNCHANGED <<Store, query, selected, items_for_display, frame, opened,
                   stdout, term, oplog, stderr>>

\* lines 187-207: KeyCode::Enter.  With a choice the url is cut out of it and
\* the terminal is restored before the browser opens; without one the arm
\* falls through to `return Ok(())`.
KeyEnter ==
    /\ pc = "poll"
    /\ Handled("Enter")
    /\ IF HasChoice(items_for_display, selected)
       THEN /\ url' = UrlOf(Choice(items_for_display, selected))
            /\ pc' = "enter_raw"
            /\ UNCHANGED <<status, cause>>
       ELSE /\ url' = url
            /\ End("ok", "accept_empty")
    /\ UNCHANGED <<Store, query, selected, items_for_display, frame, opened,
                   stdout, term, oplog, stderr>>

\* ---------------------------------------------------- restoring the terminal
\* disable_raw_mode()?
DisableRawMode(from, to) ==
    /\ pc = from
    /\ oplog' = Append(oplog, "disable_raw_mode")
    /\ \E ok \in BOOLEAN :
          IF ok
          THEN /\ term' = [term EXCEPT !.raw = FALSE]
               /\ pc' = to
               /\ UNCHANGED <<status, cause>>
          ELSE /\ term' = term
               /\ End("err", "restore_error")
    /\ UNCHANGED <<Store, Session, Sinks, stderr>>

\* execute!(io::stdout(), LeaveAlternateScreen, DisableMouseCapture)?
\* A failed write may have left the alternate screen already.
LeaveAlternateScreen(from, to) ==
    /\ pc = from
    /\ oplog' = Append(oplog, "LeaveAlternateScreen")
    /\ \E ok \in BOOLEAN :
          IF ok
          THEN /\ term' = [term EXCEPT !.alt = FALSE, !.mouse = FALSE]
               /\ pc' = to
               /\ UNCHANGED <<status, cause>>
          ELSE /\ \E a \in {term.alt, FALSE} : term' = [term EXCEPT !.alt = a]
               /\ End("err", "restore_error")
    /\ UNCHANGED <<Store, Session, Sinks, stderr>>

\* lines 214-219: after the loop: terminal.show_cursor()? and Ok(())
EscShowCursor ==
    /\ pc = "esc_cursor"
    /\ oplog' = Append(oplog, "show_cursor")
    /\ \E ok \in BOOLEAN :
          IF ok
          THEN /\ term' = [term EXCEPT !.cursor = TRUE]
               /\ End("ok", "cancel")
          ELSE /\ term' = term
               /\ End("err", "restore_error")
    /\ UNCHANGED <<Store, Session, Sinks, stderr>>

\* line 215
EscDisableRawMode == DisableRawMode("esc_raw", "esc_alt")

\* line 216
EscLeaveAlternateScreen == LeaveAlternateScreen("esc_alt", "esc_cursor")

\* line 197
EnterDisableRawMode == DisableRawMode("enter_raw", "enter_alt")

\* line 198
EnterLeaveAlternateScreen == LeaveAlternateScreen("enter_alt", "enter_cursor")

\* line 199: terminal.show_cursor()?
EnterShowCursor ==
    /\ pc = "enter_cursor"
    /\ oplog' = Append(oplog, "show_cursor")
    /\ \E ok \in BOOLEAN :
          IF ok
          THEN /\ term' = [term EXCEPT !.cursor = TRUE]
               /\ pc' = "open"
               /\ UNCHANGED <<status, cause>>
          ELSE /\ term' = term
               /\ End("err", "restore_error")
    /\ UNCHANGED <<Store, Session, Sinks, stderr>>

\* mutant: the early return after opening the browser forgotten
OpenBrowser_NoReturn ==
    /\ pc = "open"
    /\ opened' = Append(opened, url)
    /\ oplog' = Append(oplog, "open")
    /\ \E ok \in BOOLEAN :
          stdout' = IF ok THEN stdout ELSE Append(stdout, url)
    /\ pc' = "frame"
    /\ UNCHANGED <<Store, Session, url, term, stderr, status, cause>>

\* mutant: the Enter arm breaks out of the loop instead of returning
OpenBrowser_Break ==
    /\ pc = "open"
    /\ opened' = Append(opened, url)
    /\ oplog' = Append(oplog, "open")
    /\ \E ok \in BOOLEAN :
          stdout' = IF ok THEN stdout ELSE Append(stdout, url)
    /\ pc' = "esc_raw"
    /\ UNCHANGED <<Store, Session, url, term, stderr, status, cause>>

\* lines 200-206: webbrowser::open(url), the url printed when that fails,
\* and the early return
OpenBrowser ==
    /\ pc = "open"
    /\ opened' = Append(opened, url)
    /\ oplog' = Append(oplog, "open")
    /\ \E ok \in BOOLEAN :
          stdout' = IF ok THEN stdout ELSE Append(stdout, url)
    /\ End("ok", "accept")
    /\ UNCHANGED <<Store, Session, url, term, stderr>>

Next ==
    \/ CheckDatabase
    \/ LoadPanics
    \/ LoadUrls
    \/ EnableRawMode
    \/ EnterAlternateScreen
    \/ NewTerminal
    \/ Draw
    \/ PollTimeout
    \/ PollFails
    \/ NonKeyEvent
    \/ \E c \in TypedChars : KeyChar(c)
    \/ KeyBackspace
    \/ KeyUp
    \/ KeyDown
    \/ KeyOther
    \/ KeyEsc
    \/ KeyEnter
    \/ EscDisableRawMode
    \/ EscLeaveAlternateScreen
    \/ EscShowCursor
    \/ EnterDisableRawMode
    \/ EnterLeaveAlternateScreen
    \/ EnterShowCursor
    \/ OpenBrowser

Spec == Init /\ [][Next]_vars

\* ------------------------------------------------------------------- claims
Count(log, op) == Cardinality({k \in 1..Len(log) : log[k] = op})

Range(s) == {s[k] : k \in 1..Len(s)}

\* the query's characters occur in s in order, compared without case
RECURSIVE Subseq(_, _)
Subseq(q, s) ==
    IF q = <<>> THEN TRUE
    ELSE IF s = <<>> THEN FALSE
    ELSE IF Lower(Head(q)) = Lower(Head(s)) THEN Subseq(Tail(q), Tail(s))
    ELSE Subseq(q, Tail(s))

\* the candidates (by index) of the untruncated match result of a query
Matching(q) ==
    IF IsBlank(q) THEN 1..Len(displays)
    ELSE Range(MatchList(PatternParse(q), displays))

\* C1: an accept (Enter) that arrives while the ranked view is empty leaves
\* query and selection unchanged and does not end the loop: the program is
\* still running, about to render or poll again.
C1_AcceptOnEmptyIsNoOp ==
    (key.code = "Enter" /\ items_for_display = <<>>)
        => /\ status = "running"
           /\ pc \in {"frame", "poll"}
           /\ query = prev.query
           /\ selected = prev.selected

\* C2: every exit caused by an accept or cancel key has released the
\* terminal exactly once: raw mode off, alternate screen left, each of the two
\* acquired and released once.  Stated for the exits that end normally, where
\* no call failed.
C2_ReleasedExactlyOnce ==
    (pc = "done" /\ status = "ok" /\ key.code \in {"Esc", "Enter"})
        => /\ ~term.raw
           /\ ~term.alt
           /\ Count(oplog, "enable_raw_mode") = 1
           /\ Count(oplog, "EnterAlternateScreen") = 1
           /\ Count(oplog, "disable_raw_mode") = 1
           /\ Count(oplog, "LeaveAlternateScreen") = 1

\* C3: when drawing a frame or polling/reading input fails after the
\* terminal was acquired, the program ends with raw mode disabled and the
\* alternate screen left.
C3_RestoredOnIoError ==
    (pc = "done" /\ cause \in {"draw_error", "poll_error"})
        => (~term.raw /\ ~term.alt)

\* C4: in every rendered frame the selection is an index of the ranked view,
\* and 0 when the ranked view is empty.
C4_SelectionClamped ==
    frame.drawn =>
        IF Len(frame.items) = 0 THEN frame.selected = 0
        ELSE 0 <= frame.selected /\ frame.selected < Len(frame.items)

\* C4 witness: a frame rendered after a Down at the last of three entries
C4_Witness ==
    /\ frame.drawn
    /\ pc = "poll"
    /\ key.code = "Down"
    /\ Len(frame.items) = 3
    /\ prev.selected = 2
    /\ frame.selected = 2

\* C5 as claimed: the string handed to the browser is exactly the display
\* string at ranked_view[selection].
C5_HandsDisplayString ==
    \A k \in 1..Len(opened) : opened[k] = items_for_display[selected + 1]

\* u is what follows the last " - " of d, or all of d when it has none
AfterLastSep(u, d) ==
    IF Occurrences(d, Sep) = {} THEN u = d
    ELSE \E p \in Occurrences(d, Sep) :
            /\ \A p2 \in Occurrences(d, Sep) : p2 <= p
            /\ u = SubSeq(d, p + Len(Sep) + 1, Len(d))

\* C5 amended: the string handed to the browser is the part after the last
\* " - " of the stored display string at ranked_view[selection] (all of it
\* when it holds no " - ").
C5_HandsUrlOfDisplayString ==
    \A k \in 1..Len(opened) :
        /\ selected < Len(items_for_display)
        /\ items_for_display[selected + 1] \in Range(displays)
        /\ AfterLastSep(opened[k], items_for_display[selected + 1])

\* C5 witness: accept with selection 1 on a 3-item ranked view
C5_Witness ==
    /\ opened # <<>>
    /\ key.code = "Enter"
    /\ selected = 1
    /\ Len(items_for_display) = 3

\* C6: the browser is opened at most once, and not at all in a session ended
\* by Esc, by an accept on an empty ranked view, or before the loop for want
\* of candidates.
C6_SinkAtMostOnce ==
    /\ Len(opened) <= 1
    /\ Count(oplog, "open") = Len(opened)
    /\ (key.code = "Esc"
        \/ cause \in {"cancel", "accept_empty", "no_urls", "db_missing",
                      "db_unreadable"})
          => opened = <<>>

\* C6 witness: a session that ended by an accept that opened the browser
C6_Witness ==
    /\ pc = "done"
    /\ cause = "accept"
    /\ Len(opened) = 1

\* C7: after a printable-character or backspace event the selection is 0,
\* whatever it was before.
C7_ResetOnEdit ==
    (pc = "frame" /\ key.code \in {"Char", "Backspace"}) => selected = 0

\* C7 witness: a character typed while the selection was 2
C7_Witness ==
    /\ pc = "frame"
    /\ key.code = "Char"
    /\ prev.selected = 2
    /\ selected = 0

\* C8: a frame whose query is empty or all-whitespace shows exactly the
\* first min(50, N) candidates in their original order.
C8_EmptyQueryIdentity ==
    (frame.drawn /\ \A i \in 1..Len(frame.query) : frame.query[i] \in WhiteSpace)
        => /\ Len(frame.items) = Min(TopN, Len(displays))
           /\ \A k \in 1..Len(frame.items) : frame.items[k] = displays[k]

\* C8 witness: an all-whitespace query over more than 50 candidates
C8_Witness ==
    /\ frame.drawn
    /\ frame.query = <<" ">>
    /\ Len(displays) > TopN
    /\ Len(frame.items) = TopN

\* what subsequence soundness asks of a frame: every entry shown contains
\* the query as a subsequence, and no candidate left out of the match result
\* does
SoundFrame ==
    /\ \A k \in 1..Len(frame.items) : Subseq(frame.query, frame.items[k])
    /\ LET excluded == (1..Len(displays)) \ Matching(frame.query)
       IN  \A i \in excluded : ~Subseq(frame.query, displays[i])

\* C9 as claimed: soundness for every non-empty query, whatever its
\* characters.
C9_SubsequenceSound ==
    (frame.drawn /\ frame.query # <<>>) => SoundFrame

\* a query the pattern syntax reads as one literal fuzzy atom
PlainQuery(q) ==
    /\ q # <<>>
    /\ \A i \in 1..Len(q) : q[i] \notin WhiteSpace \cup {"\\"}
    /\ q[1] \notin {"!", "^", "'"}
    /\ q[Len(q)] # "$"

\* C9 amended: soundness for every non-empty query without whitespace or
\* backslash that does not begin with '!', '^' or a single quote and does not
\* end with '$'.
C9_PlainQuerySound ==
    (frame.drawn /\ PlainQuery(frame.query)) => SoundFrame

\* C9 witness: "ab" shown over three candidates, one of them left out and
\* one matched through an upper-case letter
C9_Witness ==
    /\ frame.drawn
    /\ frame.query = <<"a", "b">>
    /\ Len(displays) = 3
    /\ Len(frame.items) = 2
    /\ frame.items[1] = <<"A", "b", " ", "-", " ", "b", "a">>

\* the source has no record: the file is missing or no row can be read
NoRecords == ~db.exists \/ \A i \in 1..Len(db.rows) : ~db.rows[i].ok

\* C10: with no record the program never acquires the terminal and never
\* renders or polls, and when it has ended it has reported why.
C10_NoRecordsNoSession ==
    NoRecords
        => /\ oplog = <<>>
           /\ ~term.raw /\ ~term.alt /\ ~term.mouse
           /\ ~frame.drawn
           /\ key = NoKey
           /\ pc \in {"start", "load", "done"}
           /\ pc = "done" => (stderr # <<>> /\ status # "running")

\* C10 witness: the program ended on a database whose only row is unreadable
C10_Witness ==
    /\ pc = "done"
    /\ db.exists
    /\ db.rows # <<>>
    /\ cause = "no_urls"
    /\ stderr[Len(stderr)] = "No URLs found"

\* C11: no display string of the candidate store contains a newline.
C11_DisplaysSingleLine ==
    \A i \in 1..Len(displays) : "\n" \notin Range(displays[i])

\* C12: every frame shows at most 50 entries, each a candidate of the store;
\* for a non-empty query they are the first min(50, M) of the M matching
\* candidates ranked by descending score, equal scores by ascending original
\* index.  (The display strings of a store are pairwise distinct here, so an
\* entry names its candidate.)  A frame is examined in the state its render
\* leads to, the poll.
C12_RankedView ==
    (frame.drawn /\ pc = "poll") =>
        LET items == frame.items
            n     == Len(displays)
            atoms == PatternParse(frame.query)
            score == [i \in 1..n |-> PatternScore(atoms, displays[i])]
            matched == {i \in 1..n : score[i] # NoMatch}
            idx   == [k \in 1..Len(items) |->
                         CHOOSE i \in 1..n : displays[i] = items[k]]
            Before(i, j) == score[i] > score[j] \/ (score[i] = score[j] /\ i < j)
        IN  /\ Len(items) <= TopN
            /\ \A k \in 1..Len(items) : items[k] \in Range(displays)
            /\ frame.query # <<>> =>
                  /\ Len(items) = Min(TopN, Cardinality(matched))
                  /\ \A k \in 1..Len(items) : idx[k] \in matched
                  /\ \A k \in 1..(Len(items) - 1) : Before(idx[k], idx[k + 1])
                  /\ \A i \in matched \ Range(idx) :
                        \A k \in 1..Len(items) : Before(idx[k], i)

\* C12 witness: "b" over three candidates: the best score first, then two
\* equal scores in their original order
C12_Witness ==
    /\ frame.drawn
    /\ frame.query = <<"b">>
    /\ frame.items = << <<"b", "!">>,
                        <<"A", "b", " ", "-", " ", "b", "a">>,
                        <<"a", " ", "-", " ", "b", " ", "-", " ", "c">> >>

\* C13: move-up sets the selection to max(selection - 1, 0); move-down sets
\* it to min(selection + 1, len(ranked_view) - 1) and leaves it alone on an
\* empty ranked view; neither changes the query and neither wraps.
C13_MoveClamps ==
    /\ (pc = "frame" /\ key.code = "Up") =>
          /\ selected = (IF prev.selected - 1 > 0 THEN prev.selected - 1 ELSE 0)
          /\ query = prev.query
    /\ (pc = "frame" /\ key.code = "Down") =>
          /\ selected = (IF items_for_display = <<>> THEN prev.selected
                         ELSE Min(prev.selected + 1, Len(items_for_display) - 1))
          /\ query = prev.query

\* C13 witness: a third Down on three entries stays at the last one
C13_Witness ==
    /\ pc = "frame"
    /\ key.code = "Down"
    /\ Len(items_for_display) = 3
    /\ prev.selected = 2
    /\ selected = 2

\* C14: a character event appends its character to the query, a backspace
\* removes exactly the last character (nothing from an empty query), and no
\* other step of the program changes the query.
C14_QueryEdits ==
    [][ LET handles(code) == pc = "poll" /\ pc' = "frame" /\ key'.code = code
        IN  /\ handles("Char") => query' = query \o <<key'.ch>>
            /\ handles("Backspace") =>
                  /\ query = <<>> => query' = <<>>
                  /\ query # <<>> => /\ Len(query') = Len(query) - 1
                                     /\ query = query' \o <<query[Len(query)]>>
            /\ ~(handles("Char") \/ handles("Backspace")) => query' = query
      ]_vars

\* C14 witness: a backspace that turned "ab" into "a"
C14_Witness ==
    /\ pc = "frame"
    /\ key.code = "Backspace"
    /\ prev.query = <<"a", "b">>
    /\ query = <<"a">>

IdleCodes == {"Timeout", "NonKey", "Other"}

\* C15: a poll timeout, a non-key event and any other key leave query and
\* selection unchanged and the program running, and the frame rendered next
\* equals the frame rendered before.
C15_IdleKeepsFrame ==
    [][ /\ (pc = "poll" /\ pc' = "frame" /\ key'.code \in IdleCodes) =>
              /\ query' = query
              /\ selected' = selected
              /\ status' = "running"
        /\ (pc = "frame" /\ pc' = "poll" /\ key.code \in IdleCodes) =>
              frame' = frame
      ]_vars

\* C15 witness: the frame rendered again after a timeout, with a query typed
\* and the second entry selected
C15_Witness ==
    /\ pc = "poll"
    /\ key.code = "Timeout"
    /\ frame.drawn
    /\ frame.query = <<"a">>
    /\ frame.selected = 1
    /\ prev.selected = 1

\* ---------------------------------------------------------------- fairness
\* The steps the single thread takes by itself: every statement of main()
\* runs once control reaches it, and event::poll returns after 200 ms at the
\* latest.  Input events and I/O errors are the environment's and need never
\* happen.
Progress ==
    \/ CheckDatabase
    \/ LoadUrls
    \/ EnableRawMode
    \/ EnterAlternateScreen
    \/ NewTerminal
    \/ PollTimeout
    \/ EscDisableRawMode
    \/ EscLeaveAlternateScreen
    \/ EscShowCursor
    \/ EnterDisableRawMode
    \/ EnterLeaveAlternateScreen
    \/ EnterShowCursor
    \/ OpenBrowser

\* Weak fairness of the loop body down to terminal.draw.  Draw is enabled
\* exactly when pc = "frame" and every Draw step changes pc, so this is
\* WF_vars(Draw) with ENABLED <<Draw>>_vars written out.
DrawFair == []<><<Draw>>_vars \/ []<>(pc # "frame")

FairSpec == Spec /\ WF_vars(Progress) /\ DrawFair

\* C16: the poll always returns, so a rendered frame is followed by the next
\* iteration and that by another render (or by the end of the program on an
\* accept, a cancel or an I/O error), also when no input ever arrives; and
\* once Esc is read the program ends with nothing handed to the browser.
C16_LoopNeverBlocks ==
    /\ (pc = "poll") ~> (pc # "poll")
    /\ (pc = "frame") ~> (pc \in {"poll", "done"})
    /\ (key.code = "Esc") ~> (pc = "done" /\ opened = <<>>)

\* C16 witness: Esc was read and the program has ended, nothing opened
C16_Witness ==
    /\ pc = "done"
    /\ key.code = "Esc"
    /\ cause = "cancel"
    /\ frame.drawn
    /\ opened = <<>>

\* the terminal as it was before the program acquired it
Released ==
    /\ ~term.raw
    /\ ~term.alt
    /\ ~term.mouse
    /\ term.cursor

\* op occurs in the log before position k
Earlier(log, op, k) == \E j \in 1..(k - 1) : log[j] = op

\* C17: when the browser is opened, and when the url is printed because
\* opening failed, raw mode is off, the alternate screen is left and the
\* cursor is shown, the three release calls having been made before; and
\* after the open, failed or not, the program has ended normally.
C17_HandOffAfterRelease ==
    /\ (pc = "open" \/ opened # <<>> \/ stdout # <<>>) => Released
    /\ \A k \in 1..Len(oplog) :
          oplog[k] = "open" =>
              /\ Earlier(oplog, "disable_raw_mode", k)
              /\ Earlier(oplog, "LeaveAlternateScreen", k)
              /\ Earlier(oplog, "show_cursor", k)
    /\ opened # <<>> => (pc = "done" /\ status = "ok" /\ cause = "accept")
    /\ stdout # <<>> => (stdout = opened /\ pc = "done" /\ status = "ok")

\* C17 witness: opening failed, the url was printed and the program ended
\* normally
C17_Witness ==
    /\ pc = "done"
    /\ status = "ok"
    /\ Len(opened) = 1
    /\ stdout = opened
    /\ Released

\* C18: between a render and the handling of the next key nothing is
\* matched or clamped again: while the program polls, query, matches and
\* selection are those of the frame last drawn; Down moves within that
\* frame's entries; and the url cut out by Enter comes from the entry that
\* frame highlighted.
C18_ActsOnRenderedFrame ==
    /\ (pc = "poll") =>
          /\ frame.drawn
          /\ frame.query = query
          /\ frame.items = items_for_display
          /\ frame.selected = selected
    /\ (pc = "frame" /\ key.code = "Down") =>
          selected = (IF frame.selected + 1 < Len(frame.items)
                      THEN frame.selected + 1 ELSE frame.selected)
    /\ (pc \in {"enter_raw", "enter_alt", "enter_cursor", "open"}
        \/ opened # <<>>) =>
          /\ key.code = "Enter"
          /\ frame.selected < Len(frame.items)
          /\ AfterLastSep(url, frame.items[frame.selected + 1])
          /\ \A k \in 1..Len(opened) : opened[k] = url

\* C18 witness: Enter on the second entry of the frame drawn for "b", whose
\* order differs from the candidates'
C18_Witness ==
    /\ opened # <<>>
    /\ key.code = "Enter"
    /\ frame.query = <<"b">>
    /\ frame.selected = 1
    /\ Len(frame.items) = 3
    /\ frame.items[2] # displays[2]

\* C19: the string handed to the browser is the url of the record whose
\* display string was chosen.
C19_HandsRecordUrl ==
    \A k \in 1..Len(opened) :
        \A i \in 1..Len(urls) :
            displays[i] = items_for_display[selected + 1]
                => opened[k] = urls[i].url

\* C20: a release call is made only after both acquiring calls, and none of
\* disable_raw_mode, LeaveAlternateScreen and show_cursor is called twice,
\* whether or not a release call fails.
C20_ReleaseOnceAfterAcquire ==
    /\ Count(oplog, "disable_raw_mode") <= 1
    /\ Count(oplog, "LeaveAlternateScreen") <= 1
    /\ Count(oplog, "show_cursor") <= 1
    /\ Count(oplog, "enable_raw_mode") <= 1
    /\ Count(oplog, "EnterAlternateScreen") <= 1
    /\ \A k \in 1..Len(oplog) :
          oplog[k] \in {"disable_raw_mode", "LeaveAlternateScreen", "show_cursor"}
              => /\ Earlier(oplog, "enable_raw_mode", k)
                 /\ Earlier(oplog, "EnterAlternateScreen", k)

\* C20 witness: leaving the alternate screen failed after raw mode was
\* disabled, and the program ended there
C20_Witness ==
    /\ pc = "done"
    /\ cause = "restore_error"
    /\ Count(oplog, "disable_raw_mode") = 1
    /\ Count(oplog, "LeaveAlternateScreen") = 1
    /\ Count(oplog, "show_cursor") = 0

====
